---- MODULE Spec2Model ----
(***************************************************************************)
(* A model of the audio/MIDI graph nodes of tracktion_engine:              *)
(*   LatencyAudioNode and SummingAudioNode (examples/AudioNodeDev/         *)
(*   UtilityNodes.h), LiveMidiOutputNode and SharedLevelMeasuringNode      *)
(*   (playback/graph/tracktion_LiveMidiOutputNode.cpp), and the            *)
(*   ThreadedEditFileWriter of UtilityNodes.h.                             *)
(* Each component has a specification of its own; the variables of the     *)
(* other components stay at their "off" value in it.                       *)
(***************************************************************************)
EXTENDS Integers, Sequences, FiniteSets, TLC

\* ------------------------------------------------------------------ bounds
\* Number of trees handed to a ThreadedEditFileWriter in a run.
MaxTrees == 2
\* Largest delay (numSamplesToDelay) a stand-alone LatencyAudioNode is built with.
MaxDelay == 2
\* Largest info.blockSize handed to prepareToPlay.
MaxBlockSize == 2
\* Number of samples after which the host stops calling process.
MaxSamples == 4
\* Number of MIDI events the leaf sources produce in one run.
MaxEvents == 2

\* Audio sample values (0 is silence).
Samples == {0, 1}

\* How often e is in the sequence seq.
Count(seq, e) == Cardinality({k \in 1..Len(seq) : seq[k] = e})

Max(a, b) == IF a >= b THEN a ELSE b
Min(a, b) == IF a <= b THEN a ELSE b

\* ------------------------------------------------------- juce::MidiBuffer
\* A MidiBuffer is a sequence of events [pos, id] kept sorted by pos.

\* MidiBuffer::addEvent: the event goes before the first event with a larger
\* sample position.
RECURSIVE addEvent(_, _)
addEvent(buf, ev) ==
    IF buf = <<>> THEN <<ev>>
    ELSE IF Head(buf).pos > ev.pos THEN <<ev>> \o buf
    ELSE <<Head(buf)>> \o addEvent(Tail(buf), ev)

\* MidiBuffer::addEvents (other, startSample, numSamples, sampleDeltaToAdd):
\* every event of other at startSample or later, and before
\* startSample + numSamples unless numSamples is negative, is added with its
\* position moved by sampleDeltaToAdd.
RECURSIVE addEvents(_, _, _, _, _)
addEvents(buf, other, startSample, numSamples, sampleDeltaToAdd) ==
    IF other = <<>> THEN buf
    ELSE LET e == Head(other)
             take == /\ e.pos >= startSample
                     /\ (numSamples < 0 \/ e.pos < startSample + numSamples)
             next == IF take
                     THEN addEvent(buf, [pos |-> e.pos + sampleDeltaToAdd, id |-> e.id])
                     ELSE buf
         IN  addEvents(next, Tail(other), startSample, numSamples, sampleDeltaToAdd)

\* MidiBuffer::clear (startSample, numSamples)
clear(buf, startSample, numSamples) ==
    SelectSeq(buf, LAMBDA e : ~(e.pos >= startSample /\ e.pos < startSample + numSamples))

\* ------------------------------------------- tracktion_engine::AudioFifo
\* An audio block is [n, ch]: n samples on each channel of the sequence ch.
\* The fifo is [size, numReady, data]: data holds, per channel, the numReady
\* samples written and not yet read; one slot of size stays free
\* (juce::AbstractFifo). A write of no or of a negative number of samples
\* writes nothing.
Silence(numChannels, numSamples) ==
    [n |-> numSamples, ch |-> [c \in 1..numChannels |-> [i \in 1..numSamples |-> 0]]]

fifoGetNumReady(f) == f.numReady
fifoGetFreeSpace(f) == f.size - 1 - f.numReady

fifoSetSize(numChannels, numSamples) ==
    [size |-> numSamples, numReady |-> 0, data |-> [c \in 1..numChannels |-> <<>>]]

fifoWrite(f, block) ==
    IF block.n <= 0 \/ fifoGetFreeSpace(f) < block.n THEN f
    ELSE [f EXCEPT !.numReady = @ + block.n,
                   !.data = [c \in DOMAIN f.data |-> f.data[c] \o block.ch[c]]]

fifoWriteSilence(f, numSamples) ==
    fifoWrite(f, Silence(Len(f.data), numSamples))

\* readAdding: the result is [fifo, out]; nothing is read when fewer samples
\* than the block asks for are ready.
fifoReadAdding(f, outputBlock) ==
    LET n == outputBlock.n IN
    IF fifoGetNumReady(f) < n THEN [fifo |-> f, out |-> outputBlock]
    ELSE [fifo |-> [f EXCEPT !.numReady = @ - n,
                             !.data = [c \in DOMAIN f.data |->
                                          SubSeq(f.data[c], n + 1, Len(f.data[c]))]],
          out  |-> [outputBlock EXCEPT !.ch =
                       [c \in DOMAIN outputBlock.ch |->
                           IF c \in DOMAIN f.data
                           THEN [i \in 1..n |-> outputBlock.ch[c][i] + f.data[c][i]]
                           ELSE outputBlock.ch[c]]]]

\* -------------------------------------------------------- LatencyAudioNode
\* A node is [latencyNumSamples, fifo, midi].

\* The fifo member's initialiser: fifo { 1, 32 }
FifoInitialChannels == 1
FifoInitialSize == 32

\* LatencyAudioNode (inputNode, numSamplesToDelay)
LatencyAudioNode(numSamplesToDelay) ==
    [latencyNumSamples |-> numSamplesToDelay,
     fifo |-> fifoSetSize(FifoInitialChannels, FifoInitialSize),
     midi |-> <<>>]

\* prepareToPlay without the priming of the fifo with silence.
LatencyPrepareToPlay_NoPriming(node, numberOfChannels, blockSize) ==
    [node EXCEPT !.fifo = fifoSetSize(numberOfChannels, node.latencyNumSamples + blockSize + 1)]

\* prepareToPlay priming the fifo with one sample of silence too many.
LatencyPrepareToPlay_OverPrimed(node, numberOfChannels, blockSize) ==
    LET sized == fifoSetSize(numberOfChannels, node.latencyNumSamples + blockSize + 1)
    IN  [node EXCEPT !.fifo = fifoWriteSilence(sized, node.latencyNumSamples + 1)]

\* prepareToPlay with a fifo one slot too small for the delay and a block.
LatencyPrepareToPlay_SmallFifo(node, numberOfChannels, blockSize) ==
    LET sized == fifoSetSize(numberOfChannels, node.latencyNumSamples + blockSize)
    IN  [node EXCEPT !.fifo = fifoWriteSilence(sized, node.latencyNumSamples)]

\* LatencyAudioNode::prepareToPlay; numberOfChannels is what the node's
\* getAudioNodeProperties reports, its input's channel count.
LatencyPrepareToPlay(node, numberOfChannels, blockSize) ==
    LET sized == fifoSetSize(numberOfChannels, node.latencyNumSamples + blockSize + 1)
    IN  [node EXCEPT !.fifo = fifoWriteSilence(sized, node.latencyNumSamples)]

\* process that emits from the store and leaves what it emitted in it.
LatencyProcess_NoClear(node, inputBuffer, inputMidi, outAudio, outMidi) ==
    LET numSamples == inputBuffer.n
        d      == node.latencyNumSamples
        wrote  == fifoWrite(node.fifo, inputBuffer)
        stored == addEvents(node.midi, inputMidi, 0, -1, d)
        rd     == fifoReadAdding(wrote, outAudio)
    IN  [node  |-> [node EXCEPT !.fifo = rd.fifo, !.midi = stored],
         audio |-> rd.out,
         midi  |-> addEvents(outMidi, stored, d, numSamples, -d),
         ready |-> fifoGetNumReady(wrote)]

\* process that also lengthens the node's delay by a sample.
LatencyProcess_Drift(node, inputBuffer, inputMidi, outAudio, outMidi) ==
    LET numSamples == inputBuffer.n
        d      == node.latencyNumSamples
        wrote  == fifoWrite(node.fifo, inputBuffer)
        stored == addEvents(node.midi, inputMidi, 0, -1, d)
        rd     == fifoReadAdding(wrote, outAudio)
    IN  [node  |-> [node EXCEPT !.fifo = rd.fifo,
                                !.midi = clear(stored, d, numSamples),
                                !.latencyNumSamples = d + 1],
         audio |-> rd.out,
         midi  |-> addEvents(outMidi, stored, d, numSamples, -d),
         ready |-> fifoGetNumReady(wrote)]

\* LatencyAudioNode::process: the result is [node, audio, midi, ready], the
\* node's new state, what it leaves in pc.buffers, which held outAudio and
\* outMidi before the call, and fifo.getNumReady() at the jassert before the
\* read.
LatencyProcess(node, inputBuffer, inputMidi, outAudio, outMidi) ==
    LET numSamples == inputBuffer.n
        d      == node.latencyNumSamples
        wrote  == fifoWrite(node.fifo, inputBuffer)
        stored == addEvents(node.midi, inputMidi, 0, -1, d)
        rd     == fifoReadAdding(wrote, outAudio)
    IN  [node  |-> [node EXCEPT !.fifo = rd.fifo,
                                !.midi = clear(stored, d, numSamples)],
         audio |-> rd.out,
         midi  |-> addEvents(outMidi, stored, d, numSamples, -d),
         ready |-> fifoGetNumReady(wrote)]

\* ------------------------------------------------------------------ state
VARIABLES
    info,           \* PlaybackInitialisationInfo: [blockSize]
    \* a LatencyAudioNode on its own, fed by a one-channel source
    latPhase,       \* "off", "constructed" or "prepared"
    latNode,        \* the node: [latencyNumSamples, fifo, midi]
    inAudio,        \* every sample the input produced so far (channel 1)
    outAudio,       \* every sample the node put out so far (channel 1)
    inMidi,         \* every event the input produced: [id, at], at the global sample
    outMidi,        \* every event the node put out, in order: [id, at]
    latReads,       \* per process call: [ready, requested], fifo.getNumReady()
                    \*   before the read and the length of the output block
    \* a SummingAudioNode over leaf sources; node ids: 0 is nullptr, 1..Len(leaf)
    \* the leaves, larger ids the LatencyAudioNodes made by createLatencyNodes
    sumPhase,       \* "off", "constructed" or "prepared"
    leaf,           \* the sources: [hasAudio, hasMidi, numberOfChannels,
                    \*   latencyNumSamples, level, owned]
    nodes,          \* std::vector<AudioNode*> nodes
    ownedNodes,     \* std::vector<std::unique_ptr<AudioNode>> ownedNodes
    latencyNodes,   \* id -> [input, ownedInput, node] of each LatencyAudioNode
    processed,      \* the input nodes with hasProcessed() in the current block
    sumProcessed,   \* the summing node's hasProcessed()
    output,         \* id -> getProcessedOutput() of each processed node: [audio, midi]
    destBefore,     \* pc.buffers of SummingAudioNode::process before the call
    destAfter,      \* ... and after it
    blockStart,     \* global sample index of the current block's first sample
    graphIn,        \* every event a leaf produced: [id, at, leaf]
    graphOut,       \* every event the summing node put out, in order: [id, at]
    runs,           \* id -> number of process calls on the node in the current
                    \*   block (0 is the summing node)
    \* a LiveMidiOutputNode: the real-time thread in process, the message
    \* thread in the AsyncUpdater callback and handleAsyncUpdate
    livePhase,      \* "off" or "playing"
    pendingMessages,        \* [elements, numUsed]: the array's storage and size
    dispatchingMessages,    \* [elements, numUsed]
    heap,           \* storage -> its slots (0: never written)
    lock,           \* juce::CriticalSection lock: "free" or the holder
    shouldDeliver,  \* AsyncUpdater: an update has been triggered and not yet run
    posted,         \* AsyncUpdater messages in the message queue
    requests,       \* triggerAsyncUpdate calls since the handler last started
    rtPc,           \* process: "idle", "add" (in the loop), "store" (inside
                    \*   pendingMessages.add)
    rtTodo,         \* the block's events process has still to add
    rtReg,          \* what add read of pendingMessages: [elements, numUsed]
    hPc,            \* handleAsyncUpdate: "idle", "enter", "locked", "swapped",
                    \*   "dispatch", "clear"
    seen,           \* number of events process has seen (their ids are 1..seen)
    liveBlocks,     \* number of process calls so far
    liveOut,        \* the MIDI process copied to its output in the last block
    delivered,      \* the events handed to the track listeners, in order
    \* SharedLevelMeasuringNodes, each over a source of its own, and the
    \* SharedLevelMeasurers they are bound to
    slmPhase,       \* "off", "constructed" or "prepared"
    slmNodes,       \* the nodes: [levelMeasurer, input, sampleRate]
    measurers,      \* id -> SharedLevelMeasurer: [size, time, started, added, level]
    slmBlock,       \* index of the current block
    slmSources,     \* source -> its processed output in the current block
    slmPrefetched,  \* the nodes whose prefetchBlock ran in the current block
    slmOutput,      \* node -> its processed output in the current block
    slmCalls,       \* measurer -> the calls it got in the current block, in
                    \*   order: [op, node]
    \* ---- ThreadedEditFileWriter ----
    fwMsg,          \* where the message thread is: "off", "idle", "flushing",
                    \*   "returned" (flushAllFiles has just returned),
                    \*   "destructor flushing", "stopping" or "destroyed"
    pending,        \* the queued items, each [tree, file]
    waiter,         \* TRUE when the WaitableEvent is signalled
    fwThread,       \* where the background thread is: "not running", "top",
                    \*   "inner", "taken", "deleted", "open", "waiting", "killed"
    shouldExit,     \* Thread's exit flag
    fwItem,         \* the item writeToFile holds, tree 0 when it holds none
    fwFiles,        \* file -> -1 when absent, 0 when empty, else the tree in it
    fwSubmitted,    \* the items handed to writeTreeToFile, in call order
    fwWritten       \* the trees whose write has completed, in completion order

latVars == <<latPhase, latNode, inAudio, outAudio, inMidi, outMidi, latReads>>
sumVars == <<sumPhase, leaf, nodes, ownedNodes, latencyNodes, processed, sumProcessed,
             output, destBefore, destAfter, blockStart, graphIn, graphOut, runs>>
liveVars == <<livePhase, pendingMessages, dispatchingMessages, heap, lock, shouldDeliver,
              posted, requests, rtPc, rtTodo, rtReg, hPc, seen, liveBlocks, liveOut,
              delivered>>
slmVars == <<slmPhase, slmNodes, measurers, slmBlock, slmSources, slmPrefetched,
             slmOutput, slmCalls>>
fwVars == <<fwMsg, pending, waiter, fwThread, shouldExit, fwItem, fwFiles, fwSubmitted,
            fwWritten>>
vars == <<info, latVars, sumVars, liveVars, slmVars, fwVars>>

\* The MidiBuffer holding one event at each offset of the set offsets, the
\* events numbered from firstId in offset order.
RECURSIVE MidiAt(_, _)
MidiAt(offsets, firstId) ==
    IF offsets = {} THEN <<>>
    ELSE LET k == CHOOSE x \in offsets : \A y \in offsets : x <= y
         IN  <<[pos |-> k, id |-> firstId]>> \o MidiAt(offsets \ {k}, firstId + 1)

\* The events of a MidiBuffer as history entries, block-relative offsets
\* turned into global samples.
Stamp(buf, start) == [i \in 1..Len(buf) |-> [id |-> buf[i].id, at |-> start + buf[i].pos]]

\* Number of MIDI events the input of the LiveMidiOutputNode produces in a run.
MaxLiveEvents == 2
\* Number of blocks the LiveMidiOutputNode processes in a run.
MaxLiveBlocks == 3

\* LiveMidiOutputNode::LiveMidiOutputNode: both arrays empty, each with
\* storage of its own.
LiveConstruct ==
    /\ pendingMessages = [elements |-> 1, numUsed |-> 0]
    /\ dispatchingMessages = [elements |-> 2, numUsed |-> 0]
    /\ heap = [b \in 1..2 |-> [k \in 1..MaxLiveEvents |-> 0]]
    /\ lock = "free"
    /\ shouldDeliver = FALSE /\ posted = 0 /\ requests = 0
    /\ rtPc = "idle" /\ rtTodo = <<>> /\ rtReg = [elements |-> 1, numUsed |-> 0]
    /\ hPc = "idle"
    /\ seen = 0 /\ liveBlocks = 0
    /\ liveOut = <<>> /\ delivered = <<>>

LiveOff == livePhase = "off" /\ LiveConstruct

\* The files a tree can be written to.
Files == {"a", "b"}

\* ThreadedEditFileWriter::ThreadedEditFileWriter: nothing queued, the event
\* not signalled, the thread not started; no file exists.
FwConstruct ==
    /\ pending = <<>>
    /\ waiter = FALSE
    /\ fwThread = "not running"
    /\ shouldExit = FALSE
    /\ fwItem = [tree |-> 0, file |-> "a"]
    /\ fwFiles = [f \in Files |-> -1]
    /\ fwSubmitted = <<>> /\ fwWritten = <<>>

FwOff == fwMsg = "off" /\ FwConstruct

SlmOff ==
    /\ slmPhase = "off"
    /\ slmNodes = <<>> /\ measurers = <<>>
    /\ slmBlock = 0
    /\ slmSources = <<>> /\ slmPrefetched = {} /\ slmOutput = <<>>
    /\ slmCalls = <<>>

SumOff ==
    /\ sumPhase = "off"
    /\ leaf = <<>> /\ nodes = <<>> /\ ownedNodes = <<>>
    /\ latencyNodes = <<>>
    /\ processed = {} /\ sumProcessed = FALSE
    /\ output = <<>>
    /\ destBefore = <<>> /\ destAfter = <<>>
    /\ blockStart = 0
    /\ graphIn = <<>> /\ graphOut = <<>>
    /\ runs = [n \in {0} |-> 0]

LatOff ==
    /\ latPhase = "off"
    /\ latNode = LatencyAudioNode(0)
    /\ inAudio = <<>> /\ outAudio = <<>>
    /\ inMidi = <<>> /\ outMidi = <<>>
    /\ latReads = <<>>

\* new LatencyAudioNode (input, d)
LatInit ==
    /\ latPhase = "constructed"
    /\ \E d \in 0..MaxDelay : latNode = LatencyAudioNode(d)
    /\ info = [blockSize |-> 0]
    /\ inAudio = <<>> /\ outAudio = <<>>
    /\ inMidi = <<>> /\ outMidi = <<>>
    /\ latReads = <<>>

\* The host prepares the node: prepareToPlay (info).
LatPrepare ==
    /\ latPhase = "constructed"
    /\ \E bs \in 1..MaxBlockSize :
        /\ info' = [blockSize |-> bs]
        /\ latNode' = LatencyPrepareToPlay(latNode, 1, bs)
    /\ latPhase' = "prepared"
    /\ UNCHANGED <<inAudio, outAudio, inMidi, outMidi, latReads, sumVars, liveVars, slmVars, fwVars>>

\* One block: the input has processed n samples and some MIDI events, and the
\* node's process runs on a cleared output block of the same length.
LatProcessBlock ==
    /\ latPhase = "prepared"
    /\ \E n \in 1..info.blockSize :
        /\ Len(inAudio) + n <= MaxSamples
        /\ \E buf \in [1..n -> Samples], offsets \in SUBSET (0..(n - 1)) :
            /\ Len(inMidi) + Cardinality(offsets) <= MaxEvents
            /\ LET inputMidi == MidiAt(offsets, Len(inMidi) + 1)
                   r == LatencyProcess(latNode, [n |-> n, ch |-> <<buf>>], inputMidi,
                                       Silence(1, n), <<>>)
               IN  /\ latNode' = r.node
                   /\ inAudio' = inAudio \o buf
                   /\ outAudio' = outAudio \o r.audio.ch[1]
                   /\ inMidi' = inMidi \o Stamp(inputMidi, Len(inAudio))
                   /\ outMidi' = outMidi \o Stamp(r.midi, Len(inAudio))
                   /\ latReads' = Append(latReads, [ready |-> r.ready, requested |-> n])
    /\ UNCHANGED <<latPhase, info, sumVars, liveVars, slmVars, fwVars>>

LatNext == LatPrepare \/ LatProcessBlock

InitLatency == FwOff /\ LatInit /\ SumOff /\ LiveOff /\ SlmOff

\* new LatencyAudioNode (input, d) with any int the constructor takes, a
\* negative one included.
LatInitAnyDelay ==
    /\ latPhase = "constructed"
    /\ \E d \in (-1)..MaxDelay : latNode = LatencyAudioNode(d)
    /\ info = [blockSize |-> 0]
    /\ inAudio = <<>> /\ outAudio = <<>>
    /\ inMidi = <<>> /\ outMidi = <<>>
    /\ latReads = <<>>

InitLatencyAnyDelay == FwOff /\ LatInitAnyDelay /\ SumOff /\ LiveOff /\ SlmOff

SpecLatencyAnyDelay == InitLatencyAnyDelay /\ [][LatNext]_vars

SpecLatency == InitLatency /\ [][LatNext]_vars

\* -------------------------------------------------------- SummingAudioNode
\* Largest number of inputs a SummingAudioNode is built with.
MaxInputs == 2
\* The host processes blocks until the block that starts more than MaxTail
\* samples after the summing node's latency.
MaxTail == 0
\* Largest channel count of the block handed to SummingAudioNode::process.
MaxDestChannels == 2

\* The block sizes the graphs are prepared with.
GraphBlockSizes == {1, 2}

\* The sources the graphs are built from.
LeafKinds ==
    { [hasAudio |-> TRUE,  hasMidi |-> TRUE,  numberOfChannels |-> 1, latencyNumSamples |-> 0, level |-> 1],
      [hasAudio |-> TRUE,  hasMidi |-> FALSE, numberOfChannels |-> 2, latencyNumSamples |-> 1, level |-> 1],
      [hasAudio |-> FALSE, hasMidi |-> TRUE,  numberOfChannels |-> 0, latencyNumSamples |-> 2, level |-> 0] }

\* AudioNodeProperties props; the member initialiser of latencyNumSamples
DefaultLatencyNumSamples == 0

\* getAudioNodeProperties of an input node: a leaf reports what it declares,
\* a LatencyAudioNode its input's properties with its delay added.
RECURSIVE getAudioNodeProperties(_, _)
getAudioNodeProperties(id, lns) ==
    IF id \in 1..Len(leaf)
    THEN [hasAudio |-> leaf[id].hasAudio, hasMidi |-> leaf[id].hasMidi,
          numberOfChannels |-> leaf[id].numberOfChannels,
          latencyNumSamples |-> leaf[id].latencyNumSamples]
    ELSE LET props == getAudioNodeProperties(lns[id].input, lns)
         IN  [props EXCEPT !.latencyNumSamples = @ + lns[id].node.latencyNumSamples]

\* The fold taking the smaller channel count at every input.
RECURSIVE SummingFold_Min(_, _, _)
SummingFold_Min(props, ns, lns) ==
    IF ns = <<>> THEN props
    ELSE LET nodeProps == getAudioNodeProperties(Head(ns), lns)
         IN  SummingFold_Min([hasAudio |-> props.hasAudio \/ nodeProps.hasAudio,
                              hasMidi |-> props.hasMidi \/ nodeProps.hasMidi,
                              numberOfChannels |-> Min(props.numberOfChannels, nodeProps.numberOfChannels),
                              latencyNumSamples |-> Max(props.latencyNumSamples, nodeProps.latencyNumSamples)],
                             Tail(ns), lns)

\* SummingAudioNode::getAudioNodeProperties over the inputs ns
RECURSIVE SummingFold(_, _, _)
SummingFold(props, ns, lns) ==
    IF ns = <<>> THEN props
    ELSE LET nodeProps == getAudioNodeProperties(Head(ns), lns)
         IN  SummingFold([hasAudio |-> props.hasAudio \/ nodeProps.hasAudio,
                          hasMidi |-> props.hasMidi \/ nodeProps.hasMidi,
                          numberOfChannels |-> Max(props.numberOfChannels, nodeProps.numberOfChannels),
                          latencyNumSamples |-> Max(props.latencyNumSamples, nodeProps.latencyNumSamples)],
                         Tail(ns), lns)

SummingGetAudioNodeProperties(ns, lns) ==
    SummingFold([hasAudio |-> FALSE, hasMidi |-> FALSE, numberOfChannels |-> 0,
                 latencyNumSamples |-> DefaultLatencyNumSamples], ns, lns)

\* The vector with its null entries left in.
RemoveNull_Keep(v) == v

\* The vector without its null entries (erase / remove_if).
RemoveNull(v) == SelectSeq(v, LAMBDA n : n # 0)

\* latencyToAdd, with the mutant that forgets the input's own latency
LatencyToAdd_Max(maxLatency, nodeLatency) == maxLatency
\* latencyToAdd one sample too long, never 0.
LatencyToAdd_OneMore(maxLatency, nodeLatency) == maxLatency - nodeLatency + 1
LatencyToAdd(maxLatency, nodeLatency) == maxLatency - nodeLatency

\* The getOwnedNode lambda: [node, owned], the unique_ptr taken out of
\* ownedNodes (0 when the node is not owned) and ownedNodes after it. The
\* mutant hands the node out and leaves it in ownedNodes as well.
getOwnedNode_Keep(owned, nodeToFind) ==
    [node |-> IF \E j \in 1..Len(owned) : owned[j] = nodeToFind THEN nodeToFind ELSE 0,
     owned |-> owned]
getOwnedNode(owned, nodeToFind) ==
    IF \E j \in 1..Len(owned) : owned[j] = nodeToFind
    THEN LET j == CHOOSE k \in 1..Len(owned) :
                     owned[k] = nodeToFind /\ \A m \in 1..(k - 1) : owned[m] # nodeToFind
         IN  [node |-> nodeToFind, owned |-> [owned EXCEPT ![j] = 0]]
    ELSE [node |-> 0, owned |-> owned]

\* The loop without the test that skips an input already at the maximum.
RECURSIVE createLatencyLoop_NoSkip(_, _, _, _)
createLatencyLoop_NoSkip(st, i, maxLatency, blockSize) ==
    IF i > Len(st.nodes) THEN st
    ELSE LET node == st.nodes[i]
             nodeProps == getAudioNodeProperties(node, st.latencyNodes)
             latencyToAdd == LatencyToAdd(maxLatency, nodeProps.latencyNumSamples)
             got == getOwnedNode(st.ownedNodes, node)
             newId == Len(leaf) + Cardinality(DOMAIN st.latencyNodes) + 1
             latencyNode ==
                 [input |-> node, ownedInput |-> got.node,
                  node |-> LatencyPrepareToPlay(LatencyAudioNode(latencyToAdd),
                                                nodeProps.numberOfChannels, blockSize)]
         IN  createLatencyLoop_NoSkip(
                 [nodes |-> [st.nodes EXCEPT ![i] = 0],
                  ownedNodes |-> got.owned,
                  ownedNodesToAdd |-> Append(st.ownedNodesToAdd, newId),
                  latencyNodes |-> st.latencyNodes @@ (newId :> latencyNode)],
                 i + 1, maxLatency, blockSize)

\* The loop of createLatencyNodes from input i on; st is [nodes, ownedNodes,
\* ownedNodesToAdd, latencyNodes]. initialise (info) of the new node is its
\* prepareToPlay.
RECURSIVE createLatencyLoop(_, _, _, _)
createLatencyLoop(st, i, maxLatency, blockSize) ==
    IF i > Len(st.nodes) THEN st
    ELSE LET node == st.nodes[i]
             nodeProps == getAudioNodeProperties(node, st.latencyNodes)
             latencyToAdd == LatencyToAdd(maxLatency, nodeProps.latencyNumSamples)
         IN  IF latencyToAdd = 0 THEN createLatencyLoop(st, i + 1, maxLatency, blockSize)
             ELSE LET got == getOwnedNode(st.ownedNodes, node)
                      newId == Len(leaf) + Cardinality(DOMAIN st.latencyNodes) + 1
                      latencyNode ==
                          [input |-> node, ownedInput |-> got.node,
                           node |-> LatencyPrepareToPlay(LatencyAudioNode(latencyToAdd),
                                                         nodeProps.numberOfChannels, blockSize)]
                  IN  createLatencyLoop(
                          [nodes |-> [st.nodes EXCEPT ![i] = 0],
                           ownedNodes |-> got.owned,
                           ownedNodesToAdd |-> Append(st.ownedNodesToAdd, newId),
                           latencyNodes |-> st.latencyNodes @@ (newId :> latencyNode)],
                          i + 1, maxLatency, blockSize)

\* SummingAudioNode::createLatencyNodes: [nodes, ownedNodes, latencyNodes] after it
createLatencyNodes(ns, owned, lns, blockSize) ==
    LET maxLatency == SummingGetAudioNodeProperties(ns, lns).latencyNumSamples
        st == createLatencyLoop([nodes |-> ns, ownedNodes |-> owned,
                                 ownedNodesToAdd |-> <<>>, latencyNodes |-> lns],
                                1, maxLatency, blockSize)
    IN  [nodes |-> RemoveNull(st.nodes \o st.ownedNodesToAdd),
         ownedNodes |-> RemoveNull(st.ownedNodes \o st.ownedNodesToAdd),
         latencyNodes |-> st.latencyNodes]

\* The contribution of an input that is copied over the destination instead
\* of added to it.
SummingAddInput_Copy(dest, inputFromNode) ==
    LET numChannelsToAdd == Min(Len(inputFromNode.audio.ch), Len(dest.audio.ch))
    IN  [audio |-> [dest.audio EXCEPT !.ch =
                       [c \in DOMAIN dest.audio.ch |->
                           IF c <= numChannelsToAdd
                           THEN inputFromNode.audio.ch[c]
                           ELSE dest.audio.ch[c]]],
         midi |-> addEvents(dest.midi, inputFromNode.midi, 0, -1, 0)]

\* The contribution of an input whose MIDI is added one sample late.
SummingAddInput_Retimed(dest, inputFromNode) ==
    LET numChannelsToAdd == Min(Len(inputFromNode.audio.ch), Len(dest.audio.ch))
    IN  [audio |-> [dest.audio EXCEPT !.ch =
                       [c \in DOMAIN dest.audio.ch |->
                           IF c <= numChannelsToAdd
                           THEN [i \in 1..dest.audio.n |->
                                    dest.audio.ch[c][i] + inputFromNode.audio.ch[c][i]]
                           ELSE dest.audio.ch[c]]],
         midi |-> addEvents(dest.midi, inputFromNode.midi, 0, -1, 1)]

\* One input's contribution in SummingAudioNode::process: the audio of the
\* first min (input channels, destination channels) channels is added, the
\* MIDI is added with delta 0.
SummingAddInput(dest, inputFromNode) ==
    LET numChannelsToAdd == Min(Len(inputFromNode.audio.ch), Len(dest.audio.ch))
    IN  [audio |-> [dest.audio EXCEPT !.ch =
                       [c \in DOMAIN dest.audio.ch |->
                           IF c <= numChannelsToAdd
                           THEN [i \in 1..dest.audio.n |->
                                    dest.audio.ch[c][i] + inputFromNode.audio.ch[c][i]]
                           ELSE dest.audio.ch[c]]],
         midi |-> addEvents(dest.midi, inputFromNode.midi, 0, -1, 0)]

\* SummingAudioNode::process over the inputs ns, in order
RECURSIVE SummingProcess(_, _, _)
SummingProcess(dest, ns, outs) ==
    IF ns = <<>> THEN dest
    ELSE SummingProcess(SummingAddInput(dest, outs[Head(ns)]), Tail(ns), outs)

\* isReadyToProcess answering true whatever the inputs have done.
LatencyIsReadyToProcess_Always(id) == TRUE

\* isReadyToProcess answering false whatever the inputs have done.
SummingIsReadyToProcess_Never == FALSE

\* getProcessedOutput of an input node: what its process left in its buffers,
\* which are a cleared block of its channel count before that.
getProcessedOutput(id) ==
    IF id \in DOMAIN output THEN output[id]
    ELSE [audio |-> Silence(getAudioNodeProperties(id, latencyNodes).numberOfChannels,
                            info.blockSize),
          midi |-> <<>>]

\* SummingAudioNode::isReadyToProcess
SummingIsReadyToProcess == \A i \in 1..Len(nodes) : nodes[i] \in processed

\* LatencyAudioNode::isReadyToProcess
LatencyIsReadyToProcess(id) == latencyNodes[id].input \in processed

\* The three constructors: the referenced inputs come first in nodes, the
\* owned ones after them and in ownedNodes.
SumConstruct(kinds, numReferenced) ==
    /\ leaf = [i \in 1..Len(kinds) |->
                 [hasAudio |-> kinds[i].hasAudio, hasMidi |-> kinds[i].hasMidi,
                  numberOfChannels |-> kinds[i].numberOfChannels,
                  latencyNumSamples |-> kinds[i].latencyNumSamples,
                  level |-> kinds[i].level, owned |-> i > numReferenced]]
    /\ nodes = [i \in 1..Len(kinds) |-> i]
    /\ ownedNodes = [i \in 1..(Len(kinds) - numReferenced) |-> numReferenced + i]
    /\ sumPhase = "constructed"
    /\ latencyNodes = <<>>
    /\ processed = {} /\ sumProcessed = FALSE
    /\ output = <<>>
    /\ destBefore = <<>> /\ destAfter = <<>>
    /\ blockStart = 0
    /\ graphIn = <<>> /\ graphOut = <<>>
    /\ runs = [n \in 0..Len(kinds) |-> 0]

SumInit ==
    /\ \E bs \in GraphBlockSizes : info = [blockSize |-> bs]
    /\ \E n \in 0..MaxInputs : \E kinds \in [1..n -> LeafKinds], numReferenced \in 0..n :
          SumConstruct(kinds, numReferenced)

\* SummingAudioNode::prepareToPlay
SumPrepare ==
    /\ sumPhase = "constructed"
    /\ LET r == createLatencyNodes(nodes, ownedNodes, latencyNodes, info.blockSize)
       IN  /\ nodes' = r.nodes
           /\ ownedNodes' = r.ownedNodes
           /\ latencyNodes' = r.latencyNodes
           /\ runs' = [n \in {0} \cup (1..Len(leaf)) \cup DOMAIN r.latencyNodes |-> 0]
    /\ sumPhase' = "prepared"
    /\ UNCHANGED <<info, leaf, processed, sumProcessed, output, destBefore, destAfter,
                   blockStart, graphIn, graphOut, latVars, liveVars, slmVars, fwVars>>

\* A leaf source processes the block: its level on every sample (twice the
\* level on its second channel), and at most one new MIDI event.
LeafProcess(i) ==
    /\ sumPhase = "prepared"
    /\ ~sumProcessed
    /\ i \notin processed
    /\ \E offsets \in {{}} \cup {{k} : k \in 0..(info.blockSize - 1)} :
        /\ offsets # {} => leaf[i].hasMidi /\ Len(graphIn) < MaxEvents
        /\ LET midi == MidiAt(offsets, Len(graphIn) + 1)
               audio == [n |-> info.blockSize,
                         ch |-> [c \in 1..leaf[i].numberOfChannels |->
                                    [k \in 1..info.blockSize |-> c * leaf[i].level]]]
           IN  /\ output' = output @@ (i :> [audio |-> audio, midi |-> midi])
               /\ graphIn' = graphIn \o [k \in 1..Len(midi) |->
                                 [id |-> midi[k].id, at |-> blockStart + midi[k].pos, leaf |-> i]]
    /\ processed' = processed \cup {i}
    /\ runs' = [runs EXCEPT ![i] = @ + 1]
    /\ UNCHANGED <<info, sumPhase, leaf, nodes, ownedNodes, latencyNodes, sumProcessed,
                   destBefore, destAfter, blockStart, graphOut, latVars, liveVars, slmVars, fwVars>>

\* A LatencyAudioNode made by the transform processes the block.
LatencyNodeProcess(id) ==
    /\ sumPhase = "prepared"
    /\ ~sumProcessed
    /\ id \notin processed
    /\ LatencyIsReadyToProcess(id)
    /\ LET in == getProcessedOutput(latencyNodes[id].input)
           r == LatencyProcess(latencyNodes[id].node, in.audio, in.midi,
                               Silence(Len(in.audio.ch), in.audio.n), <<>>)
       IN  /\ latencyNodes' = [latencyNodes EXCEPT ![id].node = r.node]
           /\ output' = output @@ (id :> [audio |-> r.audio, midi |-> r.midi])
    /\ processed' = processed \cup {id}
    /\ runs' = [runs EXCEPT ![id] = @ + 1]
    /\ UNCHANGED <<info, sumPhase, leaf, nodes, ownedNodes, sumProcessed,
                   destBefore, destAfter, blockStart, graphIn, graphOut, latVars, liveVars, slmVars, fwVars>>

\* SummingAudioNode::process on a destination of numChannels channels that
\* holds fill on every sample and the MIDI events held (none, or one event of
\* id 0 that no source made). graphOut gets the events the node added.
SumProcess ==
    /\ sumPhase = "prepared"
    /\ ~sumProcessed
    /\ SummingIsReadyToProcess
    /\ \E numChannels \in 0..MaxDestChannels, fill \in Samples,
          held \in {<<>>} \cup {<<[pos |-> k, id |-> 0]>> : k \in 0..(info.blockSize - 1)} :
        LET dest == [audio |-> [n |-> info.blockSize,
                                ch |-> [c \in 1..numChannels |->
                                           [k \in 1..info.blockSize |-> fill]]],
                     midi |-> held]
            result == SummingProcess(dest, nodes,
                          [id \in {nodes[i] : i \in 1..Len(nodes)} |-> getProcessedOutput(id)])
        IN  /\ destBefore' = dest
            /\ destAfter' = result
            /\ graphOut' = graphOut \o Stamp(SelectSeq(result.midi, LAMBDA e : e.id # 0),
                                              blockStart)
    /\ sumProcessed' = TRUE
    /\ runs' = [runs EXCEPT ![0] = @ + 1]
    /\ UNCHANGED <<info, sumPhase, leaf, nodes, ownedNodes, latencyNodes, processed,
                   output, blockStart, graphIn, latVars, liveVars, slmVars, fwVars>>

\* The host starts the next block: every node's hasProcessed() is reset.
NextBlock ==
    /\ sumPhase = "prepared"
    /\ sumProcessed
    /\ blockStart + info.blockSize
         <= SummingGetAudioNodeProperties(nodes, latencyNodes).latencyNumSamples + MaxTail
    /\ blockStart' = blockStart + info.blockSize
    /\ processed' = {} /\ sumProcessed' = FALSE
    /\ output' = <<>>
    /\ destBefore' = <<>> /\ destAfter' = <<>>
    /\ runs' = [n \in DOMAIN runs |-> 0]
    /\ UNCHANGED <<info, sumPhase, leaf, nodes, ownedNodes, latencyNodes,
                   graphIn, graphOut, latVars, liveVars, slmVars, fwVars>>

\* What the orchestrator does during playback.
SumPlay ==
    \/ \E i \in 1..Len(leaf) : LeafProcess(i)
    \/ \E id \in DOMAIN latencyNodes : LatencyNodeProcess(id)
    \/ SumProcess
    \/ NextBlock

SumNext == SumPrepare \/ SumPlay

InitSumming == FwOff /\ SumInit /\ LatOff /\ LiveOff /\ SlmOff

SpecSumming == InitSumming /\ [][SumNext]_vars

\* makeSummingAudioNode: a SummingAudioNode that owns every one of its
\* inputs; it will be prepared for blocks of one sample, the size at which
\* a run has the most blocks.
makeSummingAudioNode ==
    /\ info = [blockSize |-> 1]
    /\ \E n \in 0..MaxInputs : \E kinds \in [1..n -> LeafKinds] : SumConstruct(kinds, 0)

InitSummingFair == FwOff /\ makeSummingAudioNode /\ LatOff /\ LiveOff /\ SlmOff

\* The graph under a fair orchestrator: a step that stays possible (a ready,
\* unprocessed node's process, the next block) is eventually taken.
SpecSummingFair == InitSummingFair /\ [][SumNext]_vars /\ WF_vars(SumPlay)

\* SummingAudioNode::prepareToPlay called again on the prepared node.
SumPrepareAgain ==
    /\ sumPhase = "prepared"
    /\ LET r == createLatencyNodes(nodes, ownedNodes, latencyNodes, info.blockSize)
       IN  /\ nodes' = r.nodes
           /\ ownedNodes' = r.ownedNodes
           /\ latencyNodes' = r.latencyNodes
           /\ runs' = [n \in {0} \cup (1..Len(leaf)) \cup DOMAIN r.latencyNodes |-> 0]
    /\ sumPhase' = "prepared again"
    /\ UNCHANGED <<info, leaf, processed, sumProcessed, output, destBefore, destAfter,
                   blockStart, graphIn, graphOut, latVars, liveVars, slmVars, fwVars>>

\* The node is prepared, and then prepared a second time.
SumPrepareNext == SumPrepare \/ SumPrepareAgain

SpecPrepareTwice == InitSumming /\ [][SumPrepareNext]_vars

\* The end-to-end scenario: Summing (A, B), both owned unity sources of one
\* channel, A with latency 0 and B with latency 10, prepared with blockSize 4.
InitE2E ==
    /\ info = [blockSize |-> 4]
    /\ SumConstruct(<<[hasAudio |-> TRUE, hasMidi |-> TRUE, numberOfChannels |-> 1,
                       latencyNumSamples |-> 0, level |-> 1],
                      [hasAudio |-> TRUE, hasMidi |-> TRUE, numberOfChannels |-> 1,
                       latencyNumSamples |-> 10, level |-> 1]>>, 0)
    /\ LatOff /\ LiveOff /\ SlmOff /\ FwOff

SpecE2E == InitE2E /\ [][SumNext]_vars

\* ------------------------------------------------------ LiveMidiOutputNode
LiveInit == livePhase = "playing" /\ LiveConstruct

\* juce::AsyncUpdater::triggerAsyncUpdate: a message is posted unless an
\* update is already waiting to be delivered.
triggerAsyncUpdate ==
    /\ requests' = requests + 1
    /\ IF shouldDeliver
       THEN UNCHANGED <<shouldDeliver, posted>>
       ELSE shouldDeliver' = TRUE /\ posted' = posted + 1

\* process, up to the loop: the input's MIDI (numEvents new events) and
\* audio are copied to the output.
LiveProcessBegin ==
    /\ livePhase = "playing"
    /\ rtPc = "idle"
    /\ liveBlocks < MaxLiveBlocks
    /\ \E numEvents \in 0..(MaxLiveEvents - seen) :
        LET sourceMidi == [k \in 1..numEvents |-> seen + k]
        IN  /\ liveOut' = sourceMidi
            /\ rtTodo' = sourceMidi
            /\ seen' = seen + numEvents
    /\ liveBlocks' = liveBlocks + 1
    /\ rtPc' = "add"
    /\ UNCHANGED <<info, latVars, sumVars, livePhase, pendingMessages, dispatchingMessages,
                   heap, lock, shouldDeliver, posted, requests, rtReg, hPc, delivered, slmVars, fwVars>>

\* pendingMessages.add (m), first half: the array's storage and size are
\* read. The lock is not taken.
LiveAddLoad ==
    /\ rtPc = "add"
    /\ rtTodo # <<>>
    /\ rtReg' = pendingMessages
    /\ rtPc' = "store"
    /\ UNCHANGED <<info, latVars, sumVars, livePhase, pendingMessages, dispatchingMessages,
                   heap, lock, shouldDeliver, posted, requests, rtTodo, hPc, seen,
                   liveBlocks, liveOut, delivered, slmVars, fwVars>>

\* pendingMessages.add (m), second half: the event is written to the slot
\* after the last one read, and the size read plus one is stored.
LiveAddStore ==
    /\ rtPc = "store"
    /\ heap' = [heap EXCEPT ![rtReg.elements][rtReg.numUsed + 1] = Head(rtTodo)]
    /\ pendingMessages' = [pendingMessages EXCEPT !.numUsed = rtReg.numUsed + 1]
    /\ rtTodo' = Tail(rtTodo)
    /\ rtPc' = "add"
    /\ UNCHANGED <<info, latVars, sumVars, livePhase, dispatchingMessages, lock,
                   shouldDeliver, posted, requests, rtReg, hPc, seen, liveBlocks,
                   liveOut, delivered, slmVars, fwVars>>

\* The end of process with the condition inverted: the update is triggered
\* when the queue is empty.
LiveProcessEnd_Inverted ==
    /\ rtPc = "add"
    /\ rtTodo = <<>>
    /\ IF pendingMessages.numUsed = 0
       THEN triggerAsyncUpdate
       ELSE UNCHANGED <<shouldDeliver, posted, requests>>
    /\ rtPc' = "idle"
    /\ UNCHANGED <<info, latVars, sumVars, livePhase, pendingMessages, dispatchingMessages,
                   heap, lock, rtTodo, rtReg, hPc, seen, liveBlocks, liveOut, delivered, slmVars, fwVars>>

\* The end of process: if (! pendingMessages.isEmpty()) triggerAsyncUpdate()
LiveProcessEnd ==
    /\ rtPc = "add"
    /\ rtTodo = <<>>
    /\ IF pendingMessages.numUsed # 0
       THEN triggerAsyncUpdate
       ELSE UNCHANGED <<shouldDeliver, posted, requests>>
    /\ rtPc' = "idle"
    /\ UNCHANGED <<info, latVars, sumVars, livePhase, pendingMessages, dispatchingMessages,
                   heap, lock, rtTodo, rtReg, hPc, seen, liveBlocks, liveOut, delivered, slmVars, fwVars>>

\* The message thread delivers the AsyncUpdater's message: handleAsyncUpdate
\* is called if an update is still wanted.
MessageCallback ==
    /\ livePhase = "playing"
    /\ hPc = "idle"
    /\ posted > 0
    /\ posted' = posted - 1
    /\ IF shouldDeliver
       THEN shouldDeliver' = FALSE /\ requests' = 0 /\ hPc' = "enter"
       ELSE UNCHANGED <<shouldDeliver, requests, hPc>>
    /\ UNCHANGED <<info, latVars, sumVars, livePhase, pendingMessages, dispatchingMessages,
                   heap, lock, rtPc, rtTodo, rtReg, seen, liveBlocks, liveOut, delivered, slmVars, fwVars>>

\* handleAsyncUpdate: const juce::ScopedLock sl (lock)
HandlerLock ==
    /\ hPc = "enter"
    /\ lock = "free"
    /\ lock' = "handler"
    /\ hPc' = "locked"
    /\ UNCHANGED <<info, latVars, sumVars, livePhase, pendingMessages, dispatchingMessages,
                   heap, shouldDeliver, posted, requests, rtPc, rtTodo, rtReg, seen,
                   liveBlocks, liveOut, delivered, slmVars, fwVars>>

\* handleAsyncUpdate: pendingMessages.swapWith (dispatchingMessages)
HandlerSwap ==
    /\ hPc = "locked"
    /\ pendingMessages' = dispatchingMessages
    /\ dispatchingMessages' = pendingMessages
    /\ hPc' = "swapped"
    /\ UNCHANGED <<info, latVars, sumVars, livePhase, heap, lock, shouldDeliver, posted,
                   requests, rtPc, rtTodo, rtReg, seen, liveBlocks, liveOut, delivered, slmVars, fwVars>>

\* The end of the locked scope with the lock kept for the rest of the handler.
HandlerUnlock_Late ==
    /\ hPc = "swapped"
    /\ hPc' = "dispatch"
    /\ UNCHANGED <<info, latVars, sumVars, livePhase, pendingMessages, dispatchingMessages,
                   heap, lock, shouldDeliver, posted, requests, rtPc, rtTodo, rtReg, seen,
                   liveBlocks, liveOut, delivered, slmVars, fwVars>>

\* handleAsyncUpdate: the end of the locked scope
HandlerUnlock ==
    /\ hPc = "swapped"
    /\ lock' = "free"
    /\ hPc' = "dispatch"
    /\ UNCHANGED <<info, latVars, sumVars, livePhase, pendingMessages, dispatchingMessages,
                   heap, shouldDeliver, posted, requests, rtPc, rtTodo, rtReg, seen,
                   liveBlocks, liveOut, delivered, slmVars, fwVars>>

\* handleAsyncUpdate: every message of dispatchingMessages goes to the listeners
HandlerDispatch ==
    /\ hPc = "dispatch"
    /\ delivered' = delivered \o
          [k \in 1..dispatchingMessages.numUsed |-> heap[dispatchingMessages.elements][k]]
    /\ hPc' = "clear"
    /\ UNCHANGED <<info, latVars, sumVars, livePhase, pendingMessages, dispatchingMessages,
                   heap, lock, shouldDeliver, posted, requests, rtPc, rtTodo, rtReg, seen,
                   liveBlocks, liveOut, slmVars, fwVars>>

\* handleAsyncUpdate: dispatchingMessages.clear()
HandlerClear ==
    /\ hPc = "clear"
    /\ dispatchingMessages' = [dispatchingMessages EXCEPT !.numUsed = 0]
    /\ hPc' = "idle"
    /\ UNCHANGED <<info, latVars, sumVars, livePhase, pendingMessages, heap, lock,
                   shouldDeliver, posted, requests, rtPc, rtTodo, rtReg, seen, liveBlocks,
                   liveOut, delivered, slmVars, fwVars>>

LiveNext ==
    \/ LiveProcessBegin \/ LiveAddLoad \/ LiveAddStore \/ LiveProcessEnd
    \/ MessageCallback
    \/ HandlerLock \/ HandlerSwap \/ HandlerUnlock \/ HandlerDispatch \/ HandlerClear

InitLive == FwOff /\ LiveInit /\ LatOff /\ SumOff /\ SlmOff /\ info = [blockSize |-> 0]

SpecLive == InitLive /\ [][LiveNext]_vars

\* ------------------------------------------------ SharedLevelMeasuringNode
\* Largest number of SharedLevelMeasuringNodes in a graph.
MaxSlmNodes == 2
\* Number of blocks the SharedLevelMeasuringNodes process in a run.
MaxSlmBlocks == 2

\* The sample rates the graphs are prepared with.
SampleRates == {1, 2}

\* tracktion_graph::sampleToTime: the time of a sample, in seconds, as the
\* fraction num / den.
sampleToTime(samplePosition, sampleRate) == [num |-> samplePosition, den |-> sampleRate]

\* A SharedLevelMeasurer is [size, time, started, added, level]: the size it
\* was given, the time of the last block started, the number of blocks
\* started and of buffers added, and the largest sample fed to it.
NewMeasurer == [size |-> <<0, 0>>, time |-> sampleToTime(0, 1), started |-> 0,
                added |-> 0, level |-> 0]

\* SharedLevelMeasurer::setSize
measurerSetSize(measurer, numChannels, numSamples) ==
    [measurer EXCEPT !.size = <<numChannels, numSamples>>]

\* SharedLevelMeasurer::startNextBlock
startNextBlock(measurer, streamTime) ==
    [measurer EXCEPT !.time = streamTime, !.started = @ + 1]

\* SharedLevelMeasurer::addBuffer: the buffer's numSamples samples from
\* startSample on are fed to the measurer.
addBuffer(measurer, buffer, startSample, numSamples) ==
    LET fed == {buffer.ch[c][k] : c \in 1..Len(buffer.ch),
                                  k \in (startSample + 1)..(startSample + numSamples)}
    IN  [measurer EXCEPT !.added = @ + 1,
                         !.level = IF \E x \in fed : x > @
                                   THEN CHOOSE x \in fed : \A y \in fed : y <= x
                                   ELSE @]

\* SharedLevelMeasuringNode (source, inputNode)
SharedLevelMeasuringNode(source, inputNode) ==
    [levelMeasurer |-> source, input |-> inputNode, sampleRate |-> 0]

\* process that passes its input on and feeds nothing to the measurer.
SharedLevelMeasuringProcess_NoMeasure(node, sourceBuffers, ms) ==
    [out |-> sourceBuffers, measurers |-> ms]

\* SharedLevelMeasuringNode::process: [out, measurers], the node's output
\* (the input's audio itself and a copy of its MIDI) and the measurers after
\* the node's own has been fed the audio.
SharedLevelMeasuringProcess(node, sourceBuffers, ms) ==
    LET buffer == sourceBuffers.audio
    IN  [out |-> [audio |-> sourceBuffers.audio, midi |-> sourceBuffers.midi],
         measurers |-> [ms EXCEPT ![node.levelMeasurer] = addBuffer(@, buffer, 0, buffer.n)]]

\* Graphs of one to MaxSlmNodes nodes: node i taps source i and is bound to
\* one of the measurers.
SlmInit ==
    /\ slmPhase = "constructed"
    /\ \E bs \in GraphBlockSizes, sr \in SampleRates : info = [blockSize |-> bs, sampleRate |-> sr]
    /\ \E n \in 1..MaxSlmNodes : \E binding \in [1..n -> 1..n] :
        /\ slmNodes = [i \in 1..n |-> SharedLevelMeasuringNode(binding[i], i)]
        /\ measurers = [m \in 1..n |-> NewMeasurer]
        /\ slmCalls = [m \in 1..n |-> <<>>]
    /\ slmBlock = 0
    /\ slmSources = <<>> /\ slmPrefetched = {} /\ slmOutput = <<>>

\* prepareToPlay of the nodes from node i on, in order.
RECURSIVE SlmPrepareFrom(_, _, _)
SlmPrepareFrom(i, ns, ms) ==
    IF i > Len(ns) THEN [nodes |-> ns, measurers |-> ms]
    ELSE SlmPrepareFrom(i + 1,
            [ns EXCEPT ![i].sampleRate = info.sampleRate],
            [ms EXCEPT ![ns[i].levelMeasurer] = measurerSetSize(@, 2, info.blockSize)])

\* The graph is prepared: SharedLevelMeasuringNode::prepareToPlay on every node.
SlmPrepare ==
    /\ slmPhase = "constructed"
    /\ LET r == SlmPrepareFrom(1, slmNodes, measurers)
       IN  slmNodes' = r.nodes /\ measurers' = r.measurers
    /\ slmPhase' = "prepared"
    /\ UNCHANGED <<info, latVars, sumVars, liveVars, slmBlock, slmSources, slmPrefetched,
                   slmOutput, slmCalls, fwVars>>

\* Source i processes the block: one channel holding level on every sample.
SlmSourceProcess(i) ==
    /\ slmPhase = "prepared"
    /\ i \notin DOMAIN slmSources
    /\ \E level \in Samples :
          slmSources' = slmSources @@
              (i :> [audio |-> [n |-> info.blockSize,
                                ch |-> <<[k \in 1..info.blockSize |-> level]>>],
                     midi |-> <<>>])
    /\ UNCHANGED <<info, latVars, sumVars, liveVars, slmPhase, slmNodes, measurers, slmBlock,
                   slmPrefetched, slmOutput, slmCalls, fwVars>>

\* SharedLevelMeasuringNode::prefetchBlock of node i, which the orchestrator
\* calls once in a block, before the node's process.
SlmPrefetchBlock(i) ==
    /\ slmPhase = "prepared"
    /\ i \notin slmPrefetched
    /\ LET m == slmNodes[i].levelMeasurer
           referenceSampleStart == slmBlock * info.blockSize
       IN  /\ measurers' = [measurers EXCEPT ![m] =
                   startNextBlock(@, sampleToTime(referenceSampleStart, slmNodes[i].sampleRate))]
           /\ slmCalls' = [slmCalls EXCEPT ![m] = Append(@, [op |-> "startNextBlock", node |-> i])]
    /\ slmPrefetched' = slmPrefetched \cup {i}
    /\ UNCHANGED <<info, latVars, sumVars, liveVars, slmPhase, slmNodes, slmBlock, slmSources,
                   slmOutput, fwVars>>

\* SharedLevelMeasuringNode::isReadyToProcess
SlmIsReadyToProcess(i) == slmNodes[i].input \in DOMAIN slmSources

\* SharedLevelMeasuringNode::process of node i
SlmProcess(i) ==
    /\ slmPhase = "prepared"
    /\ i \in slmPrefetched
    /\ i \notin DOMAIN slmOutput
    /\ SlmIsReadyToProcess(i)
    /\ LET r == SharedLevelMeasuringProcess(slmNodes[i], slmSources[slmNodes[i].input], measurers)
       IN  /\ measurers' = r.measurers
           /\ slmOutput' = slmOutput @@ (i :> r.out)
           /\ slmCalls' = [slmCalls EXCEPT ![slmNodes[i].levelMeasurer] =
                              IF r.measurers[slmNodes[i].levelMeasurer].added
                                     > measurers[slmNodes[i].levelMeasurer].added
                              THEN Append(@, [op |-> "addBuffer", node |-> i])
                              ELSE @]
    /\ UNCHANGED <<info, latVars, sumVars, liveVars, slmPhase, slmNodes, slmBlock, slmSources,
                   slmPrefetched, fwVars>>

\* The orchestrator starts the next block once every node has processed.
SlmNextBlock ==
    /\ slmPhase = "prepared"
    /\ DOMAIN slmOutput = 1..Len(slmNodes)
    /\ slmBlock + 1 < MaxSlmBlocks
    /\ slmBlock' = slmBlock + 1
    /\ slmSources' = <<>> /\ slmPrefetched' = {} /\ slmOutput' = <<>>
    /\ slmCalls' = [m \in DOMAIN slmCalls |-> <<>>]
    /\ UNCHANGED <<info, latVars, sumVars, liveVars, slmPhase, slmNodes, measurers, fwVars>>

SlmNext ==
    \/ SlmPrepare
    \/ \E i \in 1..Len(slmNodes) : SlmSourceProcess(i)
    \/ \E i \in 1..Len(slmNodes) : SlmPrefetchBlock(i)
    \/ \E i \in 1..Len(slmNodes) : SlmProcess(i)
    \/ SlmNextBlock

InitSlm == FwOff /\ SlmInit /\ LatOff /\ SumOff /\ LiveOff

SpecSlm == InitSlm /\ [][SlmNext]_vars

\* ------------------------------------------------------------ every graph
\* A graph of either kind: a SummingAudioNode over its inputs and delay
\* nodes, or SharedLevelMeasuringNodes on their measurers.
InitGraph == InitSumming \/ InitSlm

GraphNext == SumNext \/ SlmNext

SpecGraph == InitGraph /\ [][GraphNext]_vars

\* ---------------------------------------------------- ThreadedEditFileWriter
\* The message thread calls writeTreeToFile, flushAllFiles and the destructor;
\* the background thread executes run. pending is a juce::Array with a
\* CriticalSection: each of its calls is atomic.

FwInit == fwMsg = "idle" /\ FwConstruct

\* juce::Thread::startThread: starts run() unless the thread is running.
startThread(t) == IF t = "not running" THEN "top" ELSE t

\* The message thread is between two calls.
FwMessageThreadFree == fwMsg \in {"idle", "returned"}

\* writeTreeToFile (v, f): queue the pair, signal the event, start the thread.
\* The trees are numbered in call order.
writeTreeToFile ==
    /\ FwMessageThreadFree
    /\ Len(fwSubmitted) < MaxTrees
    /\ \E f \in Files :
         LET item == [tree |-> Len(fwSubmitted) + 1, file |-> f] IN
         /\ pending' = Append(pending, item)
         /\ fwSubmitted' = Append(fwSubmitted, item)
    /\ waiter' = TRUE
    /\ fwThread' = startThread(fwThread)
    /\ fwMsg' = "idle"
    /\ UNCHANGED <<info, latVars, sumVars, liveVars, slmVars, shouldExit, fwItem, fwFiles,
                   fwWritten>>

\* flushAllFiles up to its loop: signal the event, start the thread.
flushAllFiles ==
    /\ FwMessageThreadFree
    /\ waiter' = TRUE
    /\ fwThread' = startThread(fwThread)
    /\ fwMsg' = "flushing"
    /\ UNCHANGED <<info, latVars, sumVars, liveVars, slmVars, pending, shouldExit, fwItem,
                   fwFiles, fwSubmitted, fwWritten>>

\* flushAllFiles' loop finds pending empty and the call returns; while
\* pending is not empty the message thread sleeps.
flushAllFilesReturn ==
    /\ fwMsg = "flushing"
    /\ pending = <<>>
    /\ fwMsg' = "returned"
    /\ UNCHANGED <<info, latVars, sumVars, liveVars, slmVars, pending, waiter, fwThread,
                   shouldExit, fwItem, fwFiles, fwSubmitted, fwWritten>>

\* ~ThreadedEditFileWriter up to the loop of its flushAllFiles.
FwDestructor ==
    /\ FwMessageThreadFree
    /\ waiter' = TRUE
    /\ fwThread' = startThread(fwThread)
    /\ fwMsg' = "destructor flushing"
    /\ UNCHANGED <<info, latVars, sumVars, liveVars, slmVars, pending, shouldExit, fwItem,
                   fwFiles, fwSubmitted, fwWritten>>

\* The destructor's flushAllFiles returns and stopThread (10000) begins: the
\* exit flag is set.
FwStopThread ==
    /\ fwMsg = "destructor flushing"
    /\ pending = <<>>
    /\ shouldExit' = TRUE
    /\ fwMsg' = "stopping"
    /\ UNCHANGED <<info, latVars, sumVars, liveVars, slmVars, pending, waiter, fwThread,
                   fwItem, fwFiles, fwSubmitted, fwWritten>>

\* stopThread returns: the thread has left run(), or ten seconds have passed
\* with the thread still inside writeToFile and it is killed there.
FwStopThreadReturn ==
    /\ fwMsg = "stopping"
    /\ \/ fwThread = "not running" /\ fwThread' = fwThread
       \/ fwThread \in {"taken", "deleted", "open"} /\ fwThread' = "killed"
    /\ fwMsg' = "destroyed"
    /\ UNCHANGED <<info, latVars, sumVars, liveVars, slmVars, pending, waiter, shouldExit,
                   fwItem, fwFiles, fwSubmitted, fwWritten>>

\* run: the outer loop's test of threadShouldExit.
FwRunOuter ==
    /\ fwThread = "top"
    /\ fwThread' = IF shouldExit THEN "not running" ELSE "inner"
    /\ UNCHANGED <<info, latVars, sumVars, liveVars, slmVars, fwMsg, pending, waiter,
                   shouldExit, fwItem, fwFiles, fwSubmitted, fwWritten>>

\* run: the inner loop's test; pending.removeAndReturn (0) hands the first
\* item to writeToFile, or the thread goes to waiter.wait (1000).
FwRunInner ==
    /\ fwThread = "inner"
    /\ IF pending # <<>>
       THEN /\ fwItem' = Head(pending)
            /\ pending' = Tail(pending)
            /\ fwThread' = "taken"
       ELSE /\ fwThread' = "waiting"
            /\ UNCHANGED <<fwItem, pending>>
    /\ UNCHANGED <<info, latVars, sumVars, liveVars, slmVars, fwMsg, waiter, shouldExit,
                   fwFiles, fwSubmitted, fwWritten>>

\* writeToFile: item.second.deleteFile().
FwDeleteFile ==
    /\ fwThread = "taken"
    /\ fwFiles' = [fwFiles EXCEPT ![fwItem.file] = -1]
    /\ fwThread' = "deleted"
    /\ UNCHANGED <<info, latVars, sumVars, liveVars, slmVars, fwMsg, pending, waiter,
                   shouldExit, fwItem, fwSubmitted, fwWritten>>

\* writeToFile: FileOutputStream os (item.second) creates the file, empty.
FwOpenStream ==
    /\ fwThread = "deleted"
    /\ fwFiles' = [fwFiles EXCEPT ![fwItem.file] = 0]
    /\ fwThread' = "open"
    /\ UNCHANGED <<info, latVars, sumVars, liveVars, slmVars, fwMsg, pending, waiter,
                   shouldExit, fwItem, fwSubmitted, fwWritten>>

\* writeToFile: item.first.writeToStream (os) and the return: the file holds
\* the tree; back to the inner loop's test.
FwWriteToStream ==
    /\ fwThread = "open"
    /\ fwFiles' = [fwFiles EXCEPT ![fwItem.file] = fwItem.tree]
    /\ fwWritten' = Append(fwWritten, fwItem.tree)
    /\ fwItem' = [tree |-> 0, file |-> "a"]
    /\ fwThread' = "inner"
    /\ UNCHANGED <<info, latVars, sumVars, liveVars, slmVars, fwMsg, pending, waiter,
                   shouldExit, fwSubmitted>>

\* waiter.wait (1000) returns, on the signal or after a second, and resets
\* the event.
FwWaitReturn ==
    /\ fwThread = "waiting"
    /\ waiter' = FALSE
    /\ fwThread' = "top"
    /\ UNCHANGED <<info, latVars, sumVars, liveVars, slmVars, fwMsg, pending, shouldExit,
                   fwItem, fwFiles, fwSubmitted, fwWritten>>

FwNext ==
    \/ writeTreeToFile \/ flushAllFiles \/ flushAllFilesReturn
    \/ FwDestructor \/ FwStopThread \/ FwStopThreadReturn
    \/ FwRunOuter \/ FwRunInner
    \/ FwDeleteFile \/ FwOpenStream \/ FwWriteToStream
    \/ FwWaitReturn

InitFileWriter ==
    FwInit /\ LatOff /\ SumOff /\ LiveOff /\ SlmOff /\ info = [blockSize |-> 0]

SpecFileWriter == InitFileWriter /\ [][FwNext]_vars

\* ------------------------------------------------- claims: LatencyAudioNode
\* The events of outMidi that carry the id of the input event e.
Occurrences(e) == {j \in 1..Len(outMidi) : outMidi[j].id = e.id}

\* C1 (as stated): every MIDI event that entered the node at global sample g
\* is put out exactly once, at global sample g + d: never at another sample,
\* never twice, and it is there once the block holding sample g + d has been
\* processed.
C1_EventDelayedByLatency ==
    \A i \in 1..Len(inMidi) :
        LET e == inMidi[i]
            due == e.at + latNode.latencyNumSamples
        IN  /\ Cardinality(Occurrences(e)) <= 1
            /\ \A j \in Occurrences(e) : outMidi[j].at = due
            /\ (Len(outAudio) > due => Occurrences(e) # {})

\* C2: the node is a pure audio delay line: output sample n is input sample
\* n - d for n >= d and silence before that, whatever the block lengths.
C2_PureDelayLine ==
    /\ Len(outAudio) = Len(inAudio)
    /\ \A n \in 1..Len(outAudio) :
        outAudio[n] = IF n > latNode.latencyNumSamples
                      THEN inAudio[n - latNode.latencyNumSamples]
                      ELSE 0

\* C2 witness: an impulse at global sample 0 of a node with d = 2, fed in
\* blocks of different lengths, has come out at global sample 2.
C2_Witness ==
    /\ latPhase = "prepared"
    /\ latNode.latencyNumSamples = 2
    /\ Len(outAudio) = 4
    /\ inAudio = <<1, 0, 0, 0>>
    /\ outAudio = <<0, 0, 1, 0>>

\* C11: the fifo never underflows: at every process call after prepareToPlay
\* the samples ready in the fifo when it is read are at least the samples of
\* the output block, for every delay and every block length up to blockSize.
C11_FifoNeverUnderflows ==
    \A k \in 1..Len(latReads) : latReads[k].ready >= latReads[k].requested

\* C11 witness: a node with delay 0 prepared for blocks of 2 has processed a
\* full block and then a shorter one; each read found just its block ready.
C11_Witness ==
    /\ latNode.latencyNumSamples = 0
    /\ info.blockSize = 2
    /\ latReads = <<[ready |-> 2, requested |-> 2], [ready |-> 1, requested |-> 1]>>

\* C23: no MIDI event gets stuck in the node's store: every event a process
\* call added to it has been emitted and removed by the time the call
\* returns, so the store does not grow from block to block, and every event
\* that came in has been emitted once and never twice.
C23_NoEventStuck ==
    latPhase = "prepared" =>
        /\ latNode.midi = <<>>
        /\ Len(outMidi) = Len(inMidi)
        /\ \A i \in 1..Len(inMidi) : Cardinality(Occurrences(inMidi[i])) = 1

\* C23 witness: a node with a delay of one sample has processed two blocks
\* with one event each: both have been emitted and the store is empty.
C23_Witness ==
    /\ latPhase = "prepared"
    /\ latNode.latencyNumSamples = 1
    /\ Len(latReads) = 2
    /\ Len(inMidi) = 2
    /\ inMidi[1].at < latReads[1].requested
    /\ inMidi[2].at >= latReads[1].requested
    /\ {outMidi[k].id : k \in 1..Len(outMidi)} = {1, 2}
    /\ latNode.midi = <<>>

\* C24: the fill level of a prepared node's fifo: between process calls it
\* holds exactly the delay; inside a call, after the write, the delay plus
\* the block, never more than the delay plus blockSize, which the allocated
\* size of delay + blockSize + 1 takes: no write is refused.
C24_FifoFillLevel ==
    latPhase = "prepared" =>
        LET d == latNode.latencyNumSamples IN
        /\ fifoGetNumReady(latNode.fifo) = d
        /\ latNode.fifo.size = d + info.blockSize + 1
        /\ \A k \in 1..Len(latReads) :
              /\ latReads[k].ready = d + latReads[k].requested
              /\ latReads[k].ready <= d + info.blockSize
              /\ latReads[k].ready <= latNode.fifo.size - 1

\* C24 witness: a node with delay 2 prepared for blocks of 2 has processed a
\* full block, at which the fifo held 4 samples, and a block of one sample,
\* at which it held 3; it holds 2 again.
C24_Witness ==
    /\ latPhase = "prepared"
    /\ latNode.latencyNumSamples = 2
    /\ info.blockSize = 2
    /\ latReads = <<[ready |-> 4, requested |-> 2], [ready |-> 3, requested |-> 1]>>
    /\ fifoGetNumReady(latNode.fifo) = 2

\* C14 (as stated): a negative delay is detected by prepareToPlay and reported
\* to its caller, so playback does not start: a node with a negative delay
\* never gets prepared and its process never runs.
C14_NegativeDelayRejected ==
    latNode.latencyNumSamples < 0 => (latPhase # "prepared" /\ latReads = <<>>)

\* ------------------------------------------------- claims: SummingAudioNode
\* The largest latency the leaves declare.
MaxLeafLatency ==
    CHOOSE m \in {leaf[i].latencyNumSamples : i \in 1..Len(leaf)} :
        \A i \in 1..Len(leaf) : leaf[i].latencyNumSamples <= m

\* The LatencyAudioNodes whose input is node n.
DelayNodesOf(n) == {l \in DOMAIN latencyNodes : latencyNodes[l].input = n}

\* C3: after prepareToPlay the summing node reports the maximum of the
\* latencies its inputs declared, and every direct input of the transformed
\* list reports exactly that latency.
C3_LatencyConvergence ==
    (sumPhase = "prepared" /\ Len(leaf) > 0) =>
        /\ SummingGetAudioNodeProperties(nodes, latencyNodes).latencyNumSamples = MaxLeafLatency
        /\ \A i \in 1..Len(nodes) :
              getAudioNodeProperties(nodes[i], latencyNodes).latencyNumSamples = MaxLeafLatency

\* C3 witness: a prepared node over inputs of latency 0 and 2, the first one
\* now reached through a delay node.
C3_Witness ==
    /\ sumPhase = "prepared"
    /\ Len(leaf) = 2
    /\ leaf[1].latencyNumSamples = 0 /\ leaf[2].latencyNumSamples = 2
    /\ DelayNodesOf(1) # {}
    /\ 2 \in {nodes[i] : i \in 1..Len(nodes)}

\* C8 (as stated): in the end-to-end scenario A is wrapped in a delay node of
\* size 10, and when the only event injected is one at offset 0 of A's first
\* block, the summing node puts it out exactly once, at global sample 10.
C8_EndToEnd ==
    /\ sumPhase = "prepared" =>
          \E l \in DOMAIN latencyNodes :
              /\ latencyNodes[l].input = 1
              /\ latencyNodes[l].node.latencyNumSamples = 10
              /\ nodes = <<2, l>>
    /\ graphIn = <<[id |-> 1, at |-> 0, leaf |-> 1]>> =>
          /\ \A j \in 1..Len(graphOut) : graphOut[j].at = 10
          /\ Len(graphOut) <= 1
          /\ (sumProcessed /\ blockStart + info.blockSize > 10) => Len(graphOut) = 1

\* What the inputs with more than c channels put on sample k of channel c.
RECURSIVE InputSum(_, _, _)
InputSum(ns, c, k) ==
    IF ns = <<>> THEN 0
    ELSE (IF Len(output[Head(ns)].audio.ch) >= c THEN output[Head(ns)].audio.ch[c][k] ELSE 0)
         + InputSum(Tail(ns), c, k)

\* C9: SummingAudioNode::process accumulates: every destination sample is
\* what it was before plus the same sample of every input that has that
\* channel; an input leaves the channels beyond its own count alone.
C9_SummingAccumulates ==
    sumProcessed =>
        /\ destAfter.audio.n = destBefore.audio.n
        /\ Len(destAfter.audio.ch) = Len(destBefore.audio.ch)
        /\ \A c \in 1..Len(destBefore.audio.ch), k \in 1..destBefore.audio.n :
              destAfter.audio.ch[c][k] = destBefore.audio.ch[c][k] + InputSum(nodes, c, k)

\* C9 witness: two sources of level 1, of one and of two channels, summed
\* into a two-channel destination that held 1: channel 1 holds 1 + 2 * 1,
\* channel 2 only what it held and the two-channel source's contribution.
C9_Witness ==
    /\ sumProcessed
    /\ Len(nodes) = 2
    /\ Len(destBefore.audio.ch) = 2
    /\ destBefore.audio.ch[1][1] = 1
    /\ \E a, b \in 1..2 :
          /\ Len(output[nodes[a]].audio.ch) = 1
          /\ Len(output[nodes[b]].audio.ch) = 2
          /\ output[nodes[a]].audio.ch[1][1] = 1
          /\ destAfter.audio.ch[1][1] = 3
          /\ destAfter.audio.ch[2][1] = 1 + output[nodes[b]].audio.ch[2][1]

\* Node n's process is called in the step.
Runs(n) == n \in DOMAIN runs /\ n \in DOMAIN runs' /\ runs'[n] > runs[n]

\* C12: within a block every node's process runs at most once and only after
\* each of its direct inputs has run in that block: a delay node after the
\* input it wraps, the summing node after every node of its transformed
\* input list and so after every original input.
C12_ProcessAfterInputs ==
    [][/\ \A n \in DOMAIN runs' : runs'[n] <= 1
       /\ \A l \in DOMAIN latencyNodes :
             Runs(l) => runs[latencyNodes[l].input] = 1
       /\ Runs(0) =>
             /\ \A i \in 1..Len(nodes) : runs[nodes[i]] = 1
             /\ \A i \in 1..Len(leaf) : runs[i] = 1]_vars

\* C12 witness: a later block of a prepared node over two inputs, one of them
\* wrapped: the sources, the delay node and the summing node have each run
\* once.
C12_Witness ==
    /\ sumPhase = "prepared"
    /\ Len(leaf) = 2
    /\ DOMAIN latencyNodes # {}
    /\ blockStart > 0
    /\ sumProcessed
    /\ \A n \in DOMAIN runs : runs[n] = 1

\* C13: process is total on a prepared graph: under a fair orchestrator, in
\* every block every node, the inserted delay nodes included, is processed
\* and the summing node at the root produces its output: the readiness gate
\* never deadlocks.
C13_ProcessIsTotal ==
    (sumPhase = "prepared" /\ ~sumProcessed)
        ~> (sumProcessed /\ destAfter # <<>> /\ \A n \in DOMAIN runs : runs[n] = 1)

\* C13 witness: the root has produced the output of a later block of a graph
\* in which one input reaches it through a delay node of two samples.
C13_Witness ==
    /\ sumPhase = "prepared"
    /\ blockStart > 0
    /\ sumProcessed
    /\ destAfter # <<>>
    /\ \E l \in DOMAIN latencyNodes :
          /\ latencyNodes[l].node.latencyNumSamples = 2
          /\ l \in DOMAIN output

\* What direct input i of the summing node reports.
InputProps(i) == getAudioNodeProperties(nodes[i], latencyNodes)

\* C17: the summing node's properties are a fold over its direct inputs:
\* hasAudio and hasMidi the OR, numberOfChannels and latencyNumSamples the
\* maximum across the inputs; without inputs no audio, no MIDI, 0 channels
\* and latency 0.
C17_PropertiesAreFold ==
    sumPhase # "off" =>
        LET props == SummingGetAudioNodeProperties(nodes, latencyNodes)
            I == 1..Len(nodes)
        IN  /\ props.hasAudio = (\E i \in I : InputProps(i).hasAudio)
            /\ props.hasMidi = (\E i \in I : InputProps(i).hasMidi)
            /\ \A i \in I : /\ InputProps(i).numberOfChannels <= props.numberOfChannels
                             /\ InputProps(i).latencyNumSamples <= props.latencyNumSamples
            /\ IF I = {}
               THEN props.numberOfChannels = 0 /\ props.latencyNumSamples = 0
               ELSE /\ \E i \in I : InputProps(i).numberOfChannels = props.numberOfChannels
                    /\ \E i \in I : InputProps(i).latencyNumSamples = props.latencyNumSamples

\* C17 witness: a node not yet prepared over an audio-only input of two
\* channels and latency 1 and a MIDI-only input of no channel and latency 2
\* reports audio, MIDI, two channels and latency 2.
C17_Witness ==
    /\ sumPhase = "constructed"
    /\ Len(nodes) = 2
    /\ ~InputProps(1).hasMidi /\ InputProps(1).numberOfChannels = 2
    /\ ~InputProps(2).hasAudio /\ InputProps(2).latencyNumSamples = 2
    /\ SummingGetAudioNodeProperties(nodes, latencyNodes)
          = [hasAudio |-> TRUE, hasMidi |-> TRUE, numberOfChannels |-> 2, latencyNumSamples |-> 2]

\* How often node n is in the summing node's direct-input list.
TimesInNodes(n) == Cardinality({k \in 1..Len(nodes) : nodes[k] = n})

\* C18: the transform inserts delay nodes exactly where needed: an input
\* whose latency L is below the maximum M is replaced in the direct-input
\* list by exactly one LatencyAudioNode of delay M - L > 0 over it; an input
\* already at M stays a direct input itself, gets no delay node, and is owned
\* by the summing node exactly if it was; no delay node has length 0.
C18_DelayNodesWhereNeeded ==
    (sumPhase = "prepared" /\ Len(leaf) > 0) =>
        /\ \A i \in 1..Len(leaf) :
              IF leaf[i].latencyNumSamples < MaxLeafLatency
              THEN /\ Cardinality(DelayNodesOf(i)) = 1
                   /\ \A l \in DelayNodesOf(i) :
                         /\ latencyNodes[l].node.latencyNumSamples
                               = MaxLeafLatency - leaf[i].latencyNumSamples
                         /\ TimesInNodes(l) = 1
                   /\ TimesInNodes(i) = 0
              ELSE /\ DelayNodesOf(i) = {}
                   /\ TimesInNodes(i) = 1
                   /\ leaf[i].owned <=> (\E j \in 1..Len(ownedNodes) : ownedNodes[j] = i)
        /\ \A l \in DOMAIN latencyNodes :
              /\ latencyNodes[l].node.latencyNumSamples > 0
              /\ latencyNodes[l].input \in 1..Len(leaf)
        /\ Len(nodes) = Len(leaf)

\* C18 witness: inputs of latency 1 (owned) and 2 (referenced): the first is
\* replaced by a delay node of one sample, the second is still a direct
\* input and still only referenced.
C18_Witness ==
    /\ sumPhase = "prepared"
    /\ Len(leaf) = 2
    /\ leaf[1].latencyNumSamples = 2 /\ ~leaf[1].owned
    /\ leaf[2].latencyNumSamples = 1 /\ leaf[2].owned
    /\ \E l \in DOMAIN latencyNodes :
          /\ latencyNodes[l].input = 2
          /\ latencyNodes[l].node.latencyNumSamples = 1
          /\ nodes = <<1, l>>
    /\ Cardinality(DOMAIN latencyNodes) = 1

\* How often the event e (offset and id) is in the processed outputs of the
\* inputs ns.
RECURSIVE InputCount(_, _)
InputCount(ns, e) ==
    IF ns = <<>> THEN 0
    ELSE Count(output[Head(ns)].midi, e) + InputCount(Tail(ns), e)

\* Where an event of the destination came from: 0 when the destination held
\* it before the call, else the place in nodes of the input that made it.
MidiOrigin(e) ==
    IF Count(destBefore.midi, e) > 0 THEN 0
    ELSE CHOOSE i \in 1..Len(nodes) : Count(output[nodes[i]].midi, e) > 0

\* C19: SummingAudioNode::process merges MIDI by concatenation: every event
\* of every input's output is in the destination exactly once at its own
\* offset, whatever the destination held is still there at its offset and
\* nothing else is; the destination stays ordered by offset, and events at
\* one offset are in the order held first, then by direct-input order.
C19_MidiConcatenated ==
    sumProcessed =>
        LET after == destAfter.midi
            events == {destBefore.midi[k] : k \in 1..Len(destBefore.midi)}
                        \cup {after[k] : k \in 1..Len(after)}
                        \cup UNION {{output[nodes[i]].midi[k] : k \in 1..Len(output[nodes[i]].midi)}
                                       : i \in 1..Len(nodes)}
        IN  /\ \A e \in events :
                  Count(after, e) = Count(destBefore.midi, e) + InputCount(nodes, e)
            /\ \A a, b \in 1..Len(after) :
                  a < b => \/ after[a].pos < after[b].pos
                           \/ /\ after[a].pos = after[b].pos
                              /\ MidiOrigin(after[a]) <= MidiOrigin(after[b])

\* C19 witness: the destination held an event at offset 0 and each of two
\* inputs made one at offset 0: the three are in the destination in the
\* order held, first input, second input.
C19_Witness ==
    /\ sumProcessed
    /\ Len(nodes) = 2
    /\ destBefore.midi = <<[pos |-> 0, id |-> 0]>>
    /\ Len(destAfter.midi) = 3
    /\ \A k \in 1..3 : destAfter.midi[k].pos = 0
    /\ destAfter.midi[1].id = 0
    /\ output[nodes[1]].midi = <<destAfter.midi[2]>>
    /\ output[nodes[2]].midi = <<destAfter.midi[3]>>

\* C21: the transform is idempotent: a second prepareToPlay on the prepared
\* node adds no delay node and leaves the direct-input list, the ownership
\* relation and the reported latency as they were.
C21_TransformIdempotent ==
    [][sumPhase = "prepared" =>
          /\ nodes' = nodes
          /\ ownedNodes' = ownedNodes
          /\ latencyNodes' = latencyNodes
          /\ SummingGetAudioNodeProperties(nodes', latencyNodes').latencyNumSamples
                = SummingGetAudioNodeProperties(nodes, latencyNodes).latencyNumSamples]_vars

\* C21 witness: a node with an owned input behind a delay node and a
\* referenced direct input has been prepared a second time.
C21_Witness ==
    /\ sumPhase = "prepared again"
    /\ Len(nodes) = 2
    /\ Cardinality(DOMAIN latencyNodes) = 1
    /\ \E l \in DOMAIN latencyNodes :
          /\ nodes[2] = l
          /\ latencyNodes[l].ownedInput # 0
    /\ nodes[1] \in 1..Len(leaf) /\ ~leaf[nodes[1]].owned

\* The places in the direct-input list through which the original input i
\* is reached: itself, or a delay node over it.
ReachedThrough(i) ==
    {k \in 1..Len(nodes) :
        \/ nodes[k] = i
        \/ nodes[k] \in DOMAIN latencyNodes /\ latencyNodes[nodes[k]].input = i}

\* C22: the transform neither loses nor duplicates inputs: the node has as
\* many direct inputs after prepareToPlay as before it (one per original
\* input), none of them null, and every original input, owned or
\* referenced, is reached through exactly one of them.
C22_InputsPreserved ==
    /\ sumPhase # "off" => Len(nodes) = Len(leaf)
    /\ sumPhase = "prepared" =>
          /\ \A k \in 1..Len(nodes) : nodes[k] # 0
          /\ \A i \in 1..Len(leaf) : Cardinality(ReachedThrough(i)) = 1
          /\ \A k \in 1..Len(nodes) : \E i \in 1..Len(leaf) : k \in ReachedThrough(i)

\* C22 witness: a referenced input of lower latency than the owned one next
\* to it is reached through a delay node that does not own it, the owned
\* input directly.
C22_Witness ==
    /\ sumPhase = "prepared"
    /\ Len(leaf) = 2
    /\ ~leaf[1].owned /\ leaf[2].owned
    /\ leaf[1].latencyNumSamples < leaf[2].latencyNumSamples
    /\ nodes[1] = 2
    /\ nodes[2] \in DOMAIN latencyNodes
    /\ latencyNodes[nodes[2]].input = 1
    /\ latencyNodes[nodes[2]].ownedInput = 0

\* The owners of node n inside the graph: 0 stands for the summing node (its
\* ownedNodes), a delay node's id for its ownedInput.
Owners(n) ==
    {o \in {0} : \E j \in 1..Len(ownedNodes) : ownedNodes[j] = n}
        \cup {l \in DOMAIN latencyNodes : latencyNodes[l].ownedInput = n}

\* C10: after the transform an input that got a delay node is owned by that
\* delay node alone if the summing node owned it, and only referenced by the
\* delay node if it was referenced; the delay node is owned by the summing
\* node. Every node has at most one owner, a referenced leaf none inside the
\* graph, and every owned leaf still has one.
C10_OwnershipTransfer ==
    sumPhase = "prepared" =>
        /\ \A i \in 1..Len(leaf) : \A l \in DelayNodesOf(i) :
              /\ leaf[i].owned => Owners(i) = {l}
              /\ ~leaf[i].owned => latencyNodes[l].ownedInput = 0
              /\ Owners(l) = {0}
        /\ \A i \in 1..Len(leaf) :
              /\ Cardinality(Owners(i)) = (IF leaf[i].owned THEN 1 ELSE 0)
              /\ Cardinality({j \in 1..Len(ownedNodes) : ownedNodes[j] = i}) <= 1
        /\ \A l \in DOMAIN latencyNodes :
              Cardinality({j \in 1..Len(ownedNodes) : ownedNodes[j] = l}) = 1
        /\ \A j \in 1..Len(ownedNodes) : ownedNodes[j] # 0

\* C10 witness: an owned input has moved into its delay node while a
\* referenced input of the same summing node is still a direct input.
C10_Witness ==
    /\ sumPhase = "prepared"
    /\ Len(leaf) = 2
    /\ ~leaf[1].owned /\ leaf[2].owned
    /\ \E l \in DOMAIN latencyNodes :
          /\ latencyNodes[l].ownedInput = 2
          /\ nodes = <<1, l>>
          /\ ownedNodes = <<l>>

\* ----------------------------------------------- claims: LiveMidiOutputNode
\* Nothing is running or waiting to run on either thread.
LiveQuiescent == rtPc = "idle" /\ hPc = "idle" /\ ~shouldDeliver /\ posted = 0

\* C4 (as stated): every MIDI event process has seen is delivered to the
\* listeners exactly once: never twice, nothing else is delivered, and once
\* both threads have run to completion no event is missing.
C4_DeliveredExactlyOnce ==
    /\ \A e \in 1..seen : Count(delivered, e) <= 1
    /\ \A k \in 1..Len(delivered) : delivered[k] \in 1..seen
    /\ LiveQuiescent => \A e \in 1..seen : Count(delivered, e) = 1

\* C5 (as stated): the pending queue is only mutated with the lock held: the
\* real-time thread holds it while it is inside an append, the handler holds
\* it during the swap, and so an append and the swap never overlap.
C5_QueueMutatedUnderLock ==
    /\ rtPc = "store" => lock = "rt"
    /\ hPc \in {"locked", "swapped"} => lock = "handler"
    /\ ~(rtPc = "store" /\ hPc \in {"locked", "swapped"})

\* C6: whenever the lock is held, its holder is the handler and it is at the
\* exchange of the two queues: the dispatch to the listeners, the clearing
\* of the scratch queue and process's copying run without the lock.
C6_LockOnlyAroundSwap ==
    /\ lock # "free" => (lock = "handler" /\ hPc \in {"locked", "swapped"})
    /\ hPc \in {"dispatch", "clear"} => lock = "free"

\* C6 witness: the handler has released the lock and is about to dispatch a
\* non-empty batch to the listeners.
C6_Witness ==
    /\ hPc = "dispatch"
    /\ lock = "free"
    /\ dispatchingMessages.numUsed > 0

\* C7: however many updates process has requested since the handler last
\* started, exactly one handler run is waiting; and whenever process has
\* returned leaving events in the pending queue, a handler run is waiting or
\* has started and not yet exchanged the queues.
C7_CoalescedWakeUp ==
    /\ posted <= 1
    /\ requests > 0 => (shouldDeliver /\ posted = 1)
    /\ (rtPc = "idle" /\ pendingMessages.numUsed > 0) =>
          \/ shouldDeliver /\ posted = 1
          \/ hPc \in {"enter", "locked"}

\* C7 witness: three blocks have each requested an update before the
\* handler ran, and one handler run is waiting for the events they left.
C7_Witness ==
    /\ requests = 3
    /\ posted = 1
    /\ rtPc = "idle"
    /\ hPc = "idle"
    /\ pendingMessages.numUsed = 2

\* ------------------------------------------ claims: SharedLevelMeasuringNode
\* The nodes bound to measurer m.
BoundTo(m) == {i \in 1..Len(slmNodes) : slmNodes[i].levelMeasurer = m}

\* The places in measurer m's calls of the current block that are op calls
\* made by node i.
CallsOf(m, op, i) ==
    {k \in 1..Len(slmCalls[m]) : slmCalls[m][k] = [op |-> op, node |-> i]}

\* C15: once every node has processed the block, each measurer has received
\* exactly one buffer from each node bound to it and none from another node:
\* exactly two when two nodes share it.
C15_SharedMeasurerAccumulates ==
    (slmPhase = "prepared" /\ DOMAIN slmOutput = 1..Len(slmNodes)) =>
        \A m \in DOMAIN measurers :
            /\ \A i \in 1..Len(slmNodes) :
                  Cardinality(CallsOf(m, "addBuffer", i)) = (IF i \in BoundTo(m) THEN 1 ELSE 0)
            /\ Cardinality({k \in 1..Len(slmCalls[m]) : slmCalls[m][k].op = "addBuffer"})
                  = Cardinality(BoundTo(m))
            /\ measurers[m].added = (slmBlock + 1) * Cardinality(BoundTo(m))

\* C15 witness: two nodes bound to measurer 1 have both processed the second
\* block, and the measurer got two buffers in it, four in all.
C15_Witness ==
    /\ slmPhase = "prepared"
    /\ Len(slmNodes) = 2
    /\ BoundTo(1) = {1, 2}
    /\ slmBlock = 1
    /\ DOMAIN slmOutput = {1, 2}
    /\ measurers[1].added = 4
    /\ Cardinality({k \in 1..Len(slmCalls[1]) : slmCalls[1][k].op = "addBuffer"}) = 2

\* C16 (as stated): a producer's prefetchBlock / process pair is atomic on
\* the shared measurer: a startNextBlock from a node is followed at once by
\* that node's addBuffer, with no call of another producer between them.
C16_PrefetchProcessAtomic ==
    \A m \in DOMAIN slmCalls : \A k \in 1..Len(slmCalls[m]) :
        slmCalls[m][k].op = "startNextBlock" =>
            (k < Len(slmCalls[m]) =>
                slmCalls[m][k + 1] = [op |-> "addBuffer", node |-> slmCalls[m][k].node])

\* ------------------------------------------- claims: ThreadedEditFileWriter
\* The trees of a sequence of items.
TreesOf(items) == [k \in 1..Len(items) |-> items[k].tree]

\* The writes completed so far are the first of the submitted trees, in
\* submission order, each once.
FwInOrderOnce ==
    /\ Len(fwWritten) <= Len(fwSubmitted)
    /\ fwWritten = SubSeq(TreesOf(fwSubmitted), 1, Len(fwWritten))

Topology(ns, owned, lns, slm) ==
    [nodes      |-> ns,
     ownedNodes |-> owned,
     delayNodes |-> [l \in DOMAIN lns |->
                       [input |-> lns[l].input,
                        ownedInput |-> lns[l].ownedInput,
                        props |-> getAudioNodeProperties(l, lns)]],
     summing    |-> SummingGetAudioNodeProperties(ns, lns),
     measuring  |-> [i \in 1..Len(slm) |->
                       [input |-> slm[i].input, levelMeasurer |-> slm[i].levelMeasurer]]]

====
